---- MODULE Spec2Model ----
(***************************************************************************)
(* trace-mutex: a std::sync::Mutex wrapper whose lock() polls try_lock(),  *)
(* doubles a shared atomic spin interval on every WouldBlock, logs the     *)
(* wait at a severity chosen from that interval, sleeps and retries.       *)
(* Model of src/src/lib.rs.  One Mutex instance, NumThreads threads.       *)
(***************************************************************************)
EXTENDS Integers, Sequences, FiniteSets, TLC

(***************************************************************************)
(* Bounds of the model.                                                    *)
(***************************************************************************)
\* threads contending in Spec
NumThreads == 3
\* doublings of the interval after which Spec starts no failed attempt
MaxDoublings == 1
\* soloAttempts stops counting here
MaxCount == 11
\* lock() calls of a thread in FairSpec
MaxCalls == 2
\* Mutex instances built in NewSpec
MaxMutexes == 4

Threads == 1..NumThreads

\* the two threads of LongSpec, where the doublings are not capped
LongPair == {1, 2}

\* the three threads of WaitersSpec: an owner and two waiters at a time
Trio == {1, 2, 3}

(***************************************************************************)
(* usize.  The interval is an AtomicUsize; on the 64-bit targets the value *)
(* is kept here as USIZE_WORDS words of WORD_BASE, least significant       *)
(* first, so that saturation at usize::MAX = 2^64 - 1 is the real one.     *)
(***************************************************************************)
USIZE_WORDS == 4
WORD_BASE == 65536

WordIdx == 1..USIZE_WORDS

UsizeMax == [i \in WordIdx |-> WORD_BASE - 1]

\* a literal below 2^31 as a usize
ToUsize(n) ==
    [i \in WordIdx |-> IF i = 1 THEN n % WORD_BASE
                       ELSE IF i = 2 THEN n \div WORD_BASE
                       ELSE 0]

RECURSIVE LessFrom(_, _, _)
LessFrom(a, b, i) ==
    IF i = 0 THEN FALSE
    ELSE IF a[i] # b[i] THEN a[i] < b[i]
    ELSE LessFrom(a, b, i - 1)

\* a < b on usize
Less(a, b) == LessFrom(a, b, USIZE_WORDS)

LessEq(a, b) == ~Less(b, a)

\* the carry into word i of x * m, m a small factor
RECURSIVE CarryInto(_, _, _)
CarryInto(x, m, i) ==
    IF i = 1 THEN 0
    ELSE (x[i - 1] * m + CarryInto(x, m, i - 1)) \div WORD_BASE

\* x * m modulo 2^64
WrappingMul(x, m) ==
    [i \in WordIdx |-> (x[i] * m + CarryInto(x, m, i)) % WORD_BASE]

\* the carry into word i of x + n, n a small addend
RECURSIVE AddCarryInto(_, _, _)
AddCarryInto(x, n, i) ==
    IF i = 1 THEN n
    ELSE (x[i - 1] + AddCarryInto(x, n, i - 1)) \div WORD_BASE

\* x + n modulo 2^64, the sum an atomic fetch_add stores
WrappingAdd(x, n) ==
    [i \in WordIdx |-> (x[i] + AddCarryInto(x, n, i)) % WORD_BASE]

\* the slip of wrapping_mul for saturating_mul
SaturatingMulWraps(x, m) == WrappingMul(x, m)

\* usize::saturating_mul: the product, or usize::MAX when it overflows
SaturatingMul(x, m) ==
    IF CarryInto(x, m, USIZE_WORDS + 1) > 0 THEN UsizeMax
    ELSE WrappingMul(x, m)

(***************************************************************************)
(* The constants of lib.rs.                                                *)
(***************************************************************************)
DEFAULT_SPIN == 100
\* a factor of three
SPIN_INCREASE_Triple == 2 + 1

SPIN_INCREASE == 2
\* the first threshold with a digit dropped
DEBUG_THRESHOLD_Short == 50000 \div 10

DEBUG_THRESHOLD == 50000
INFO_THRESHOLD == 500000
WARN_THRESHOLD == 3000000
ERROR_THRESHOLD == 60000000

\* a local that holds no value yet
NoValue == <<>>

\* the match with the info! and warn! arms exchanged
WaitLevelSwapped(n) ==
    IF Less(n, ToUsize(DEBUG_THRESHOLD)) THEN "none"
    ELSE IF Less(n, ToUsize(INFO_THRESHOLD)) THEN "debug"
    ELSE IF Less(n, ToUsize(WARN_THRESHOLD)) THEN "warn"
    ELSE IF Less(n, ToUsize(ERROR_THRESHOLD)) THEN "info"
    ELSE "error"

\* the match on spin of lock(): the level of the "Waiting" line, "none" for
\* the arm that logs nothing
WaitLevel(n) ==
    IF Less(n, ToUsize(DEBUG_THRESHOLD)) THEN "none"
    ELSE IF Less(n, ToUsize(INFO_THRESHOLD)) THEN "debug"
    ELSE IF Less(n, ToUsize(WARN_THRESHOLD)) THEN "info"
    ELSE IF Less(n, ToUsize(ERROR_THRESHOLD)) THEN "warn"
    ELSE "error"

(***************************************************************************)
(* State.                                                                  *)
(***************************************************************************)
VARIABLES
    locked,      \* inner: the std mutex is held
    poisoned,    \* inner: the std mutex's poison flag
    spin_us,     \* Mutex.spin_us
    pc,          \* where each thread is
    load,        \* lock(): the local load
    store,       \* lock(): the local store
    spin,        \* lock(): the local spin
    panicking,   \* the thread is unwinding
    retried,     \* the thread's current lock() call has got a WouldBlock
    hasSlept,    \* the current call has slept
    waitLogged,  \* the current call has logged a "Waiting" line
    lockedLogs,  \* "Locked" lines of the current call
    level,       \* level of the current attempt's "Waiting" line
    slept,       \* duration of the current attempt's sleep, in microseconds
    releasedLogs,\* "Released" lines of the guard the thread holds
    lastLog,     \* the latest "Locked" or "Released" line of the log, "none"
                 \* before the first
    calls,       \* lock() calls the thread has made, counted in FairSpec
    MUTEX_ID,    \* static MUTEX_ID
    id,          \* new(): the local id
    mutexes,     \* the id fields of the Mutex instances built so far
    \* history of a call's failed attempts, followed in LongSpec
    lastSeen,    \* the interval the call's latest doubling found
    lastLevel,   \* level of the "Waiting" line of the call's previous attempt,
                 \* "none" once some thread stored DEFAULT_SPIN after it
    resetSince,  \* some thread stored DEFAULT_SPIN since the call's latest doubling
    soloAttempts,\* WouldBlock results of the call, counted for as long as it
                 \* found spin_us at DEFAULT_SPIN first and no other thread has
                 \* written spin_us since; 0 otherwise
    doublings,   \* successful compare_exchanges since spin_us last was stored
                 \* DEFAULT_SPIN (or since Init)
    lateDoubling \* some compare_exchange has succeeded while the inner lock
                 \* was free

mutexVars == <<locked, poisoned>>
localVars == <<load, store, spin>>
callVars == <<retried, hasSlept, waitLogged, lockedLogs>>
attemptVars == <<level, slept>>
logVars == <<releasedLogs, lastLog>>
idVars == <<MUTEX_ID, id, mutexes>>
histVars == <<lastSeen, lastLevel, resetSince, soloAttempts, doublings,
              lateDoubling>>

progVars == <<mutexVars, spin_us, pc, localVars, panicking, callVars, attemptVars,
              logVars>>

vars == <<progVars, idVars, calls, histVars>>

\* Mutex::new, and no thread inside lock()
Init ==
    /\ locked = FALSE
    /\ poisoned = FALSE
    /\ spin_us = ToUsize(DEFAULT_SPIN)
    /\ pc = [t \in Threads |-> "idle"]
    /\ load = [t \in Threads |-> NoValue]
    /\ store = [t \in Threads |-> NoValue]
    /\ spin = [t \in Threads |-> NoValue]
    /\ panicking = [t \in Threads |-> FALSE]
    /\ retried = [t \in Threads |-> FALSE]
    /\ hasSlept = [t \in Threads |-> FALSE]
    /\ waitLogged = [t \in Threads |-> FALSE]
    /\ lockedLogs = [t \in Threads |-> 0]
    /\ level = [t \in Threads |-> "none"]
    /\ slept = [t \in Threads |-> NoValue]
    /\ lastSeen = [t \in Threads |-> NoValue]
    /\ lastLevel = [t \in Threads |-> "none"]
    /\ resetSince = [t \in Threads |-> FALSE]
    /\ soloAttempts = [t \in Threads |-> 0]
    /\ releasedLogs = [t \in Threads |-> 0]
    /\ lastLog = "none"
    /\ calls = [t \in Threads |-> 0]
    /\ MUTEX_ID = ToUsize(0)
    /\ id = [t \in Threads |-> NoValue]
    /\ mutexes = <<>>
    /\ doublings = 0
    /\ lateDoubling = FALSE

(***************************************************************************)
(* std::sync::Mutex, as lock() and the guards use it.                      *)
(***************************************************************************)
\* a try_lock that takes the lock whether or not it is held
TryLockResultUnchecked == IF poisoned THEN "Poisoned" ELSE "Ok"

\* a try_lock that does not look at the poison flag
TryLockResultNoPoison == IF locked THEN "WouldBlock" ELSE "Ok"

\* inner.try_lock(): WouldBlock while held, else the lock is taken and the
\* result is Poisoned(guard) when the poison flag is set, Ok(guard) otherwise
TryLockResult ==
    IF locked THEN "WouldBlock"
    ELSE IF poisoned THEN "Poisoned"
    ELSE "Ok"

\* threads that own the inner lock: from the successful try_lock until the
\* StdMutexGuard (in the MutexGuard or in the PoisonError) is dropped
Owns(t) ==
    pc[t] \in {"store", "locklog", "ret_ok", "ret_err", "ok", "unlock", "err"}

Owners == {t \in Threads : Owns(t)}

(***************************************************************************)
(* Mutex::new                                                              *)
(***************************************************************************)
\* a load of the counter in the place of the fetch_add
NewLoadOnly(t) ==
    /\ id[t] = NoValue
    /\ id' = [id EXCEPT ![t] = MUTEX_ID]
    /\ UNCHANGED <<MUTEX_ID, mutexes>>

\* let id = MUTEX_ID.fetch_add(1, Ordering::AcqRel): the counter's value before
\* the addition
NewFetchAdd(t) ==
    /\ id[t] = NoValue
    /\ id' = [id EXCEPT ![t] = MUTEX_ID]
    /\ MUTEX_ID' = WrappingAdd(MUTEX_ID, 1)
    /\ UNCHANGED mutexes

\* Self { inner: StdMutex::new(data), spin_us: AtomicUsize::new(DEFAULT_SPIN), id }
NewReturn(t) ==
    /\ id[t] # NoValue
    /\ mutexes' = Append(mutexes, id[t])
    /\ id' = [id EXCEPT ![t] = NoValue]
    /\ UNCHANGED MUTEX_ID

(***************************************************************************)
(* Mutex::lock                                                             *)
(***************************************************************************)
\* a lock() that sleeps before its first try_lock
LockCallSleepFirst(t) ==
    /\ pc[t] = "idle"
    /\ pc' = [pc EXCEPT ![t] = "try"]
    /\ hasSlept' = [hasSlept EXCEPT ![t] = TRUE]
    /\ UNCHANGED <<logVars, mutexVars, spin_us, localVars, panicking, retried,
                   waitLogged, lockedLogs, attemptVars>>

\* a thread calls lock(): let start = Instant::now(); let ident = ..; loop {
LockCall(t) ==
    /\ pc[t] = "idle"
    /\ pc' = [pc EXCEPT ![t] = "try"]
    /\ UNCHANGED <<logVars, mutexVars, spin_us, localVars, panicking, callVars,
                   attemptVars>>

\* match self.inner.try_lock() { Ok(guard) => ...
TryLockOk(t) ==
    /\ pc[t] = "try"
    /\ TryLockResult = "Ok"
    /\ locked' = TRUE
    /\ pc' = [pc EXCEPT ![t] = "store"]
    /\ UNCHANGED <<logVars, poisoned, spin_us, localVars, panicking, callVars,
                   attemptVars>>

\* a lock() that gives up when the lock is held
TryLockWouldBlockGivesUp(t) ==
    /\ pc[t] = "try"
    /\ TryLockResult = "WouldBlock"
    /\ pc' = [pc EXCEPT ![t] = "idle"]
    /\ UNCHANGED <<logVars, mutexVars, spin_us, localVars, panicking, callVars,
                   attemptVars>>

\* ... Err(StdTryLockError::WouldBlock) => ...
TryLockWouldBlock(t) ==
    /\ pc[t] = "try"
    /\ TryLockResult = "WouldBlock"
    /\ pc' = [pc EXCEPT ![t] = "load"]
    /\ retried' = [retried EXCEPT ![t] = TRUE]
    /\ UNCHANGED <<logVars, mutexVars, spin_us, localVars, panicking, hasSlept,
                   waitLogged, lockedLogs, attemptVars>>

\* a Poisoned arm that resets the interval as the Ok arm does
TryLockPoisonedResets(t) ==
    /\ pc[t] = "try"
    /\ TryLockResult = "Poisoned"
    /\ locked' = TRUE
    /\ spin_us' = ToUsize(DEFAULT_SPIN)
    /\ pc' = [pc EXCEPT ![t] = "ret_err"]
    /\ UNCHANGED <<logVars, poisoned, localVars, panicking, callVars,
                   attemptVars>>

\* ... Err(StdTryLockError::Poisoned(p)) => return Err(p)
TryLockPoisoned(t) ==
    /\ pc[t] = "try"
    /\ TryLockResult = "Poisoned"
    /\ locked' = TRUE
    /\ pc' = [pc EXCEPT ![t] = "ret_err"]
    /\ UNCHANGED <<logVars, poisoned, spin_us, localVars, panicking, callVars,
                   attemptVars>>

\* the slip of leaving the interval as the contention left it
ResetValueKept == spin_us

\* the value lock() stores once it owns the lock
ResetValue == ToUsize(DEFAULT_SPIN)

\* self.spin_us.store(DEFAULT_SPIN, Ordering::Release)
StoreDefault(t) ==
    /\ pc[t] = "store"
    /\ spin_us' = ResetValue
    /\ pc' = [pc EXCEPT ![t] = "locklog"]
    /\ UNCHANGED <<logVars, mutexVars, localVars, panicking, callVars, attemptVars>>

\* an Ok arm that logs nothing
LogLockedSilent(t) ==
    /\ pc[t] = "locklog"
    /\ pc' = [pc EXCEPT ![t] = "ret_ok"]
    /\ UNCHANGED <<logVars, mutexVars, spin_us, localVars, panicking, callVars,
                   attemptVars>>

\* trace!("{} - Locked", ident);
LogLocked(t) ==
    /\ pc[t] = "locklog"
    /\ lockedLogs' = [lockedLogs EXCEPT ![t] = @ + 1]
    /\ lastLog' = "Locked"
    /\ pc' = [pc EXCEPT ![t] = "ret_ok"]
    /\ UNCHANGED <<releasedLogs, mutexVars, spin_us, localVars, panicking,
                   retried, hasSlept, waitLogged, attemptVars>>

\* lock() returns, Ok(MutexGuard { .. }) or Err(p): the caller holds the guard
\* and what was recorded about the call is dropped
Return(t) ==
    /\ pc[t] \in {"ret_ok", "ret_err"}
    /\ pc' = [pc EXCEPT ![t] = IF pc[t] = "ret_ok" THEN "ok" ELSE "err"]
    /\ retried' = [retried EXCEPT ![t] = FALSE]
    /\ hasSlept' = [hasSlept EXCEPT ![t] = FALSE]
    /\ waitLogged' = [waitLogged EXCEPT ![t] = FALSE]
    /\ lockedLogs' = [lockedLogs EXCEPT ![t] = 0]
    /\ UNCHANGED <<logVars, mutexVars, spin_us, localVars, panicking, attemptVars>>

\* the doubling such that an overflow falls back to DEFAULT_SPIN
LoadSpinOrDefault(t) ==
    /\ pc[t] = "load"
    /\ load' = [load EXCEPT ![t] = spin_us]
    /\ store' = [store EXCEPT ![t] =
         IF CarryInto(spin_us, SPIN_INCREASE, USIZE_WORDS + 1) > 0
         THEN ToUsize(DEFAULT_SPIN)
         ELSE WrappingMul(spin_us, SPIN_INCREASE)]
    /\ pc' = [pc EXCEPT ![t] = "cas"]
    /\ UNCHANGED <<logVars, mutexVars, spin_us, spin, panicking, callVars, attemptVars>>

\* let load = self.spin_us.load(Ordering::Acquire);
\* let store = load.saturating_mul(SPIN_INCREASE);
LoadSpin(t) ==
    /\ pc[t] = "load"
    /\ load' = [load EXCEPT ![t] = spin_us]
    /\ store' = [store EXCEPT ![t] = SaturatingMul(spin_us, SPIN_INCREASE)]
    /\ pc' = [pc EXCEPT ![t] = "cas"]
    /\ UNCHANGED <<logVars, mutexVars, spin_us, spin, panicking, callVars, attemptVars>>

\* a compare_exchange that would hand back the value it stored
CompareExchangeOkNew(current, new) == new

\* what a successful compare_exchange(current, new) hands back in Ok(..):
\* the value the atomic held before the exchange
CompareExchangeOk(current, new) == current

\* a swap that does not compare
CasOkUncompared(t) ==
    /\ pc[t] = "cas"
    /\ spin_us' = store[t]
    /\ spin' = [spin EXCEPT ![t] = spin_us]
    /\ pc' = [pc EXCEPT ![t] = "match"]
    /\ UNCHANGED <<logVars, mutexVars, load, store, panicking, callVars, attemptVars>>

\* self.spin_us.compare_exchange(load, store, ..) succeeds: Ok(spin) => break spin
CasOk(t) ==
    /\ pc[t] = "cas"
    /\ spin_us = load[t]
    /\ spin_us' = store[t]
    /\ spin' = [spin EXCEPT ![t] = CompareExchangeOk(spin_us, store[t])]
    /\ pc' = [pc EXCEPT ![t] = "match"]
    /\ UNCHANGED <<logVars, mutexVars, load, store, panicking, callVars, attemptVars>>

\* the compare_exchange fails: Err(_) => {}, and the inner loop loads again
CasFail(t) ==
    /\ pc[t] = "cas"
    /\ spin_us # load[t]
    /\ load' = [load EXCEPT ![t] = NoValue]
    /\ store' = [store EXCEPT ![t] = NoValue]
    /\ pc' = [pc EXCEPT ![t] = "load"]
    /\ UNCHANGED <<logVars, mutexVars, spin_us, spin, panicking, callVars, attemptVars>>

\* a sleep for the doubled interval
SleepMicrosOfStore(t) == store[t]

\* the duration of the sleep: Duration::from_micros(spin as u64)
SleepMicros(t) == spin[t]

\* match spin { .. }: the "Waiting" line, at the level of the arm taken;
\* sleep(Duration::from_micros(spin as u64)): the thread goes to sleep
LogWaitSleep(t) ==
    /\ pc[t] = "match"
    /\ level' = [level EXCEPT ![t] = WaitLevel(spin[t])]
    /\ waitLogged' = [waitLogged EXCEPT ![t] = @ \/ WaitLevel(spin[t]) # "none"]
    /\ slept' = [slept EXCEPT ![t] = SleepMicros(t)]
    /\ hasSlept' = [hasSlept EXCEPT ![t] = TRUE]
    /\ pc' = [pc EXCEPT ![t] = "asleep"]
    /\ UNCHANGED <<logVars, mutexVars, spin_us, localVars, panicking, retried,
                   lockedLogs>>

\* a lock() that gives up after its sleep
WakeGivesUp(t) ==
    /\ pc[t] = "asleep"
    /\ load' = [load EXCEPT ![t] = NoValue]
    /\ store' = [store EXCEPT ![t] = NoValue]
    /\ spin' = [spin EXCEPT ![t] = NoValue]
    /\ level' = [level EXCEPT ![t] = "none"]
    /\ slept' = [slept EXCEPT ![t] = NoValue]
    /\ retried' = [retried EXCEPT ![t] = FALSE]
    /\ hasSlept' = [hasSlept EXCEPT ![t] = FALSE]
    /\ waitLogged' = [waitLogged EXCEPT ![t] = FALSE]
    /\ pc' = [pc EXCEPT ![t] = "idle"]
    /\ UNCHANGED <<logVars, mutexVars, spin_us, panicking, lockedLogs>>

\* a sleep that does not end
WakeNever(t) ==
    /\ pc[t] = "asleep"
    /\ UNCHANGED <<progVars>>

\* the sleep ends, the WouldBlock arm ends with its locals, and the outer
\* loop tries again
Wake(t) ==
    /\ pc[t] = "asleep"
    /\ load' = [load EXCEPT ![t] = NoValue]
    /\ store' = [store EXCEPT ![t] = NoValue]
    /\ spin' = [spin EXCEPT ![t] = NoValue]
    /\ level' = [level EXCEPT ![t] = "none"]
    /\ slept' = [slept EXCEPT ![t] = NoValue]
    /\ pc' = [pc EXCEPT ![t] = "try"]
    /\ UNCHANGED <<logVars, mutexVars, spin_us, panicking, callVars>>

(***************************************************************************)
(* The guards.                                                             *)
(***************************************************************************)
\* a MutexGuard whose drop() logs nothing
DropGuardSilent(t) ==
    /\ pc[t] = "ok"
    /\ pc' = [pc EXCEPT ![t] = "unlock"]
    /\ UNCHANGED <<logVars, mutexVars, spin_us, localVars, panicking, callVars,
                   attemptVars>>

\* Drop for MutexGuard: trace!("{} - Released", self.id), then the fields drop
DropGuard(t) ==
    /\ pc[t] = "ok"
    /\ releasedLogs' = [releasedLogs EXCEPT ![t] = @ + 1]
    /\ lastLog' = "Released"
    /\ pc' = [pc EXCEPT ![t] = "unlock"]
    /\ UNCHANGED <<mutexVars, spin_us, localVars, panicking, callVars,
                   attemptVars>>

\* the owner's code panics while it holds the guard: the unwinding drops the
\* MutexGuard, whose drop() logs as above
PanicDrop(t) ==
    /\ pc[t] = "ok"
    /\ panicking' = [panicking EXCEPT ![t] = TRUE]
    /\ releasedLogs' = [releasedLogs EXCEPT ![t] = @ + 1]
    /\ lastLog' = "Released"
    /\ pc' = [pc EXCEPT ![t] = "unlock"]
    /\ UNCHANGED <<mutexVars, spin_us, localVars, callVars, attemptVars>>

\* the StdMutexGuard drops (inside the MutexGuard, or inside the PoisonError):
\* it poisons the mutex when the thread is panicking, and unlocks; a caught
\* panic ends there
InnerDrop(t) ==
    /\ pc[t] \in {"unlock", "err"}
    /\ poisoned' = (poisoned \/ panicking[t])
    /\ locked' = FALSE
    /\ panicking' = [panicking EXCEPT ![t] = FALSE]
    /\ releasedLogs' = [releasedLogs EXCEPT ![t] = 0]
    /\ pc' = [pc EXCEPT ![t] = "idle"]
    /\ UNCHANGED <<lastLog, spin_us, localVars, callVars, attemptVars>>

(***************************************************************************)
(* Specifications.                                                         *)
(***************************************************************************)
\* the interval has been doubled MaxDoublings times since it last was DEFAULT_SPIN
Doubled == ~Less(spin_us, ToUsize(DEFAULT_SPIN * 2^MaxDoublings))

\* Spec does not follow the history of the failed attempts, counts no calls
\* and builds no further Mutex
NoHistory == UNCHANGED <<histVars, calls, idVars>>

\* NumThreads threads, whose owners may panic; no failed attempt starts once
\* the interval is Doubled
Next ==
    \E t \in Threads :
       \/ LockCall(t) /\ NoHistory
       \/ TryLockOk(t) /\ NoHistory
       \/ ~Doubled /\ TryLockWouldBlock(t) /\ NoHistory
       \/ StoreDefault(t) /\ NoHistory
       \/ LogLocked(t) /\ NoHistory
       \/ Return(t) /\ NoHistory
       \/ LoadSpin(t) /\ NoHistory
       \/ CasOk(t) /\ NoHistory
       \/ CasFail(t) /\ NoHistory
       \/ LogWaitSleep(t) /\ NoHistory
       \/ Wake(t) /\ NoHistory
       \/ DropGuard(t) /\ NoHistory
       \/ InnerDrop(t) /\ NoHistory
       \/ PanicDrop(t) /\ NoHistory
       \/ TryLockPoisoned(t) /\ NoHistory

Spec == Init /\ [][Next]_vars

Bump(n) == IF n < MaxCount THEN n + 1 ELSE n

\* the history of thread t's step: what its call's failed attempts found
Observe(t) ==
    /\ lastSeen' = [lastSeen EXCEPT ![t] =
         IF pc[t] = "cas" /\ pc'[t] = "match" THEN spin'[t]
         ELSE IF pc[t] = "try" /\ pc'[t] = "store" THEN NoValue
         ELSE @]
    /\ lastLevel' =
         IF pc[t] = "asleep"
         THEN [lastLevel EXCEPT ![t] = IF resetSince[t] THEN "none" ELSE level[t]]
         ELSE IF pc[t] = "store" THEN [u \in Threads |-> "none"]
         ELSE lastLevel
    /\ resetSince' =
         IF pc[t] = "store" THEN [u \in Threads |-> lastSeen[u] # NoValue]
         ELSE IF pc[t] = "cas" /\ pc'[t] = "match"
              THEN [resetSince EXCEPT ![t] = FALSE]
         ELSE resetSince
    /\ soloAttempts' =
         IF pc[t] = "try" /\ pc'[t] = "load"
         THEN [soloAttempts EXCEPT ![t] =
                 IF retried[t] THEN (IF @ > 0 THEN Bump(@) ELSE 0)
                 ELSE IF spin_us = ToUsize(DEFAULT_SPIN) THEN 1 ELSE 0]
         ELSE IF pc[t] = "try" /\ pc'[t] = "store"
              THEN [soloAttempts EXCEPT ![t] = 0]
         ELSE IF spin_us' # spin_us \/ pc[t] = "store"
              THEN [u \in Threads |-> IF u = t THEN soloAttempts[u] ELSE 0]
         ELSE soloAttempts
    /\ doublings' =
         IF pc[t] = "store" THEN 0
         ELSE IF pc[t] = "cas" /\ pc'[t] = "match" THEN Bump(doublings)
         ELSE doublings
    /\ lateDoubling' =
         (lateDoubling \/ (pc[t] = "cas" /\ pc'[t] = "match" /\ ~locked))
    /\ UNCHANGED <<calls, idVars>>

\* the two threads of LongPair, no owner panics, and lock() retries without a
\* cap, so that the interval runs through its whole range up to usize::MAX
LongNext ==
    \E t \in LongPair :
       \/ LockCall(t) /\ Observe(t)
       \/ TryLockOk(t) /\ Observe(t)
       \/ TryLockWouldBlock(t) /\ Observe(t)
       \/ StoreDefault(t) /\ Observe(t)
       \/ LogLocked(t) /\ Observe(t)
       \/ Return(t) /\ Observe(t)
       \/ LoadSpin(t) /\ Observe(t)
       \/ CasOk(t) /\ Observe(t)
       \/ CasFail(t) /\ Observe(t)
       \/ LogWaitSleep(t) /\ Observe(t)
       \/ Wake(t) /\ Observe(t)
       \/ DropGuard(t) /\ Observe(t)
       \/ InnerDrop(t) /\ Observe(t)

LongSpec == Init /\ [][LongNext]_vars

\* the three threads of Trio, whose owners may panic, with the history of
\* their failed attempts; no failed attempt starts once the interval is Doubled
WaitersNext ==
    \E t \in Trio :
       \/ LockCall(t) /\ Observe(t)
       \/ TryLockOk(t) /\ Observe(t)
       \/ ~Doubled /\ TryLockWouldBlock(t) /\ Observe(t)
       \/ StoreDefault(t) /\ Observe(t)
       \/ LogLocked(t) /\ Observe(t)
       \/ Return(t) /\ Observe(t)
       \/ LoadSpin(t) /\ Observe(t)
       \/ CasOk(t) /\ Observe(t)
       \/ CasFail(t) /\ Observe(t)
       \/ LogWaitSleep(t) /\ Observe(t)
       \/ Wake(t) /\ Observe(t)
       \/ DropGuard(t) /\ Observe(t)
       \/ InnerDrop(t) /\ Observe(t)
       \/ PanicDrop(t) /\ Observe(t)
       \/ TryLockPoisoned(t) /\ Observe(t)

WaitersSpec == Init /\ [][WaitersNext]_vars

\* thread t's step, counted when it is a call of lock()
Counted(t) ==
    /\ calls' = [calls EXCEPT ![t] = IF pc[t] = "idle" THEN @ + 1 ELSE @]
    /\ UNCHANGED <<histVars, idVars>>

\* the two threads of LongPair, each calling lock() at most MaxCalls times;
\* owners may panic, and lock() retries without a cap
FairNext ==
    \E t \in LongPair :
       \/ calls[t] < MaxCalls /\ LockCall(t) /\ Counted(t)
       \/ TryLockOk(t) /\ Counted(t)
       \/ TryLockWouldBlock(t) /\ Counted(t)
       \/ StoreDefault(t) /\ Counted(t)
       \/ LogLocked(t) /\ Counted(t)
       \/ Return(t) /\ Counted(t)
       \/ LoadSpin(t) /\ Counted(t)
       \/ CasOk(t) /\ Counted(t)
       \/ CasFail(t) /\ Counted(t)
       \/ LogWaitSleep(t) /\ Counted(t)
       \/ Wake(t) /\ Counted(t)
       \/ DropGuard(t) /\ Counted(t)
       \/ InnerDrop(t) /\ Counted(t)
       \/ PanicDrop(t) /\ Counted(t)
       \/ TryLockPoisoned(t) /\ Counted(t)

\* what a scheduled thread does next, inside lock() or dropping a guard it
\* holds; a thread need not call lock(), and an owner need not panic
Proceed(t) ==
    \/ TryLockOk(t) \/ TryLockWouldBlock(t) \/ TryLockPoisoned(t)
    \/ StoreDefault(t) \/ LogLocked(t) \/ Return(t)
    \/ LoadSpin(t) \/ CasOk(t) \/ CasFail(t) \/ LogWaitSleep(t) \/ Wake(t)
    \/ DropGuard(t) \/ InnerDrop(t)

\* fair scheduling: a thread that can proceed eventually does (the scheduler
\* runs it, its sleep ends, and it drops the guard it holds)
Fairness == \A t \in LongPair : WF_vars(Proceed(t) /\ Counted(t))

FairSpec == Init /\ [][FairNext]_vars /\ Fairness

(***************************************************************************)
(* Properties.                                                             *)
(***************************************************************************)
\* thread t's step is the store of lock()'s Ok arm
IsStoreDefault(t) == pc[t] = "store" /\ pc'[t] = "locklog"

\* thread t's step is its successful compare_exchange
IsCasOk(t) == pc[t] = "cas" /\ pc'[t] = "match"

\* C1: mutual exclusion: at most one thread owns the inner lock, from its
\* successful try_lock until its guard (or the guard inside the PoisonError)
\* is dropped; the std mutex is held exactly while some thread owns it.
C1_MutualExclusion ==
    /\ Cardinality(Owners) <= 1
    /\ locked <=> Owners # {}

\* one thread holds the guard while another, having failed, sleeps
C1_Witness ==
    \E t, u \in Threads : t # u /\ pc[t] = "ok" /\ pc[u] = "asleep"

\* C2: the store of the Ok arm leaves spin_us at DEFAULT_SPIN (100), whatever
\* it was; a call reaches the "Locked" line and its return of the guard only
\* through that store.
C2_ResetOnAcquire ==
    [][\A t \in Threads :
         /\ IsStoreDefault(t) => spin_us' = ToUsize(100)
         /\ (pc'[t] = "locklog" /\ pc[t] # "locklog") => IsStoreDefault(t)
         /\ (pc'[t] = "ret_ok" /\ pc[t] # "ret_ok") => pc[t] = "locklog"]_vars

\* a thread has just reset an interval that a sleeping waiter had doubled up
\* to usize::MAX
C2_Witness ==
    \E t, u \in Threads :
        /\ pc[t] = "locklog" /\ spin_us = ToUsize(100)
        /\ pc[u] = "asleep" /\ store[u] = UsizeMax

\* C3 as stated: from one failed attempt of a lock() call to the next, the
\* interval the attempt finds never decreases.
C3_Original ==
    [][\A t \in Threads :
         (IsCasOk(t) /\ lastSeen[t] # NoValue)
             => LessEq(lastSeen[t], spin'[t])]_vars

\* C3 amended: from one failed attempt of a lock() call to the next, the
\* interval the attempt finds never decreases, provided no thread acquired the
\* lock (and so stored DEFAULT_SPIN) between the two doublings.
C3_MonotoneUnlessReset ==
    [][\A t \in Threads :
         (IsCasOk(t) /\ lastSeen[t] # NoValue /\ ~resetSince[t])
             => LessEq(lastSeen[t], spin'[t])]_vars

\* a call's second doubling in a row, no reset in between, has found a larger
\* interval than its first
C3_Witness ==
    \E t \in Threads :
        /\ pc[t] = "cas" /\ lastSeen[t] # NoValue /\ ~resetSince[t]
        /\ load[t] = spin_us /\ Less(lastSeen[t], load[t])

\* x shifted right by one bit
Halve(x) ==
    [i \in WordIdx |->
        x[i] \div 2
        + (IF i < USIZE_WORDS THEN (x[i + 1] % 2) * (WORD_BASE \div 2) ELSE 0)]

\* 2 * x does not fit a usize: the top bit of x is set
DoubleOverflows(x) == x[USIZE_WORDS] >= WORD_BASE \div 2

\* C4: a failed attempt stores min(2 * v, MAX) for the interval v it found:
\* exactly twice v when that fits, usize::MAX when it does not, never less
\* than v; and once the interval is MAX only the store of an acquisition
\* changes it.
C4_SaturatingDouble ==
    [][/\ \A t \in Threads :
            IsCasOk(t) =>
                /\ LessEq(spin_us, spin_us')
                /\ IF DoubleOverflows(spin_us) THEN spin_us' = UsizeMax
                   ELSE Halve(spin_us') = spin_us /\ spin_us'[1] % 2 = 0
       /\ (spin_us = UsizeMax /\ ~\E t \in Threads : IsStoreDefault(t))
             => spin_us' = UsizeMax]_vars

\* a failed attempt found the interval at usize::MAX and left it there
C4_Witness ==
    \E t \in Threads :
        pc[t] = "match" /\ spin[t] = UsizeMax /\ spin_us = UsizeMax

\* C5 as stated: the level of a failed attempt's "Waiting" line is the one of
\* the interval that the attempt's doubling stored.
C5_Original ==
    \A t \in Threads : pc[t] = "asleep" => level[t] = WaitLevel(store[t])

\* C5 amended: the level of a failed attempt's "Waiting" line is the one of
\* the interval the attempt found, the value before its doubling, which is
\* what the compare_exchange hands back.
C5_LevelOfFoundValue ==
    \A t \in Threads : pc[t] = "asleep" => level[t] = WaitLevel(load[t])

\* an attempt found 25,600, stored 51,200 and logged nothing
C5_Witness ==
    \E t \in Threads :
        /\ pc[t] = "asleep" /\ level[t] = "none"
        /\ load[t] = ToUsize(25600) /\ store[t] = ToUsize(51200)

Rank(l) ==
    CASE l = "none" -> 0 [] l = "trace" -> 1 [] l = "debug" -> 2
      [] l = "info" -> 3 [] l = "warn" -> 4 [] l = "error" -> 5

\* the threshold table, for the value n an attempt examines
TableLevel(n) ==
    CASE Less(n, ToUsize(50000)) -> "none"
      [] ~Less(n, ToUsize(50000)) /\ Less(n, ToUsize(500000)) -> "debug"
      [] ~Less(n, ToUsize(500000)) /\ Less(n, ToUsize(3000000)) -> "info"
      [] ~Less(n, ToUsize(3000000)) /\ Less(n, ToUsize(60000000)) -> "warn"
      [] ~Less(n, ToUsize(60000000)) -> "error"

\* C6: the level of the "Waiting" line follows the threshold table for the
\* value n the attempt examines (nothing below 50,000; debug, the lowest wait
\* level, below 500,000; info below 3,000,000; warn below 60,000,000; error
\* from there), and over the failed attempts of a blocked period that no
\* acquisition interrupts the level never decreases.
C6_ThresholdTable ==
    /\ [](\A t \in Threads : pc[t] = "asleep" => level[t] = TableLevel(spin[t]))
    /\ [][\A t \in Threads :
            (pc[t] = "match" /\ pc'[t] = "asleep")
                => Rank(level'[t]) >= Rank(lastLevel[t])]_vars

\* a blocked period has gone through every level up to error
C6_Witness ==
    \E t \in Threads :
        /\ pc[t] = "asleep" /\ level[t] = "error" /\ lastLevel[t] = "warn"
        /\ ~Less(spin[t], ToUsize(60000000))

\* C7: a lone waiter whose blocked period found the interval at 100 logs
\* nothing in its 1st to 9th failed attempts, and logs its first "Waiting"
\* line, at debug, in the 10th.
C7_TenthAttemptLogs ==
    \A t \in Threads :
        (pc[t] = "asleep" /\ soloAttempts[t] \in 1..10) =>
            /\ soloAttempts[t] < 10 => level[t] = "none" /\ ~waitLogged[t]
            /\ soloAttempts[t] = 10 => level[t] = "debug" /\ waitLogged[t]
            /\ lastLevel[t] = "none"

\* the lone waiter sleeps after its 10th failed attempt
C7_Witness ==
    \E t \in Threads :
        pc[t] = "asleep" /\ soloAttempts[t] = 10 /\ level[t] = "debug"

\* C8 as stated: after a failed attempt the thread sleeps for the interval
\* its doubling stored.
C8_Original ==
    \A t \in Threads : pc[t] = "asleep" => slept[t] = store[t]

\* C8 amended: after a failed attempt the thread sleeps for the interval the
\* attempt found, the value before its doubling (half the stored one, unless
\* that saturated).
C8_SleepsFoundValue ==
    \A t \in Threads :
        pc[t] = "asleep" =>
            /\ slept[t] = load[t]
            /\ store[t] # UsizeMax => Halve(store[t]) = slept[t]

\* a thread sleeps 100 microseconds after doubling the interval to 200
C8_Witness ==
    \E t \in Threads :
        /\ pc[t] = "asleep" /\ slept[t] = ToUsize(100)
        /\ store[t] = ToUsize(200)

\* C9 as stated: a call whose first try_lock succeeds sleeps not and logs
\* nothing, at any level, before it returns the guard.
C9_Original ==
    \A t \in Threads :
        (pc[t] = "ret_ok" /\ ~retried[t]) =>
            ~hasSlept[t] /\ ~waitLogged[t] /\ lockedLogs[t] = 0

\* C9 amended: a call whose first try_lock succeeds sleeps not and logs no
\* "Waiting" line before it returns the guard; it logs the one trace-level
\* "Locked" line.
C9_FastPath ==
    \A t \in Threads :
        (pc[t] = "ret_ok" /\ ~retried[t]) =>
            ~hasSlept[t] /\ ~waitLogged[t] /\ lockedLogs[t] = 1

\* a call is about to return the guard its first try_lock got
C9_Witness ==
    \E t \in Threads : pc[t] = "ret_ok" /\ ~retried[t] /\ lockedLogs[t] = 1

\* C10: once the inner mutex is poisoned it stays so, no lock() call is on its
\* way to return Ok, and a call's try_lock leads to the retry loop while the
\* lock is held and to the return of the PoisonError otherwise.
C10_PoisonedNeverOk ==
    /\ [](poisoned => \A t \in Threads : pc[t] \notin {"store", "locklog", "ret_ok"})
    /\ [][/\ poisoned => poisoned'
          /\ \A t \in Threads :
               (poisoned /\ pc[t] = "try" /\ pc'[t] # "try")
                   => pc'[t] = (IF locked THEN "load" ELSE "ret_err")
          /\ \A t \in Threads :
               (pc'[t] = "err" /\ pc[t] # "err") => poisoned]_vars

\* one call has returned the PoisonError, whose guard it holds, while another
\* call waits in the retry loop
C10_Witness ==
    \E t, u \in Threads :
        poisoned /\ pc[t] = "err" /\ pc[u] = "asleep" /\ hasSlept[u]

\* the threads call new() concurrently, MaxMutexes times in all; no thread
\* calls lock()
NewNext ==
    \E t \in Threads :
       \/ /\ Less(MUTEX_ID, ToUsize(MaxMutexes))
          /\ NewFetchAdd(t)
          /\ UNCHANGED <<progVars, calls, histVars>>
       \/ /\ NewReturn(t)
          /\ UNCHANGED <<progVars, calls, histVars>>

NewSpec == Init /\ [][NewNext]_vars

\* thread t is inside lock()
InLock(t) ==
    pc[t] \in {"try", "store", "locklog", "ret_ok", "ret_err", "load", "cas",
               "match", "asleep"}

\* thread t's step is a try_lock that takes the inner lock
IsAcquire(t) == pc[t] = "try" /\ pc'[t] \in {"store", "ret_err"}

\* C11: with finitely many lock() calls per thread and every holder dropping
\* its guard, under fair scheduling every lock() call returns, with the guard
\* or with the PoisonError; and a try_lock succeeds only while the inner lock
\* is free and takes it, and only the drop of the owner's guard frees it, so
\* that after a release at most one attempt succeeds until the next release.
C11_NoStarvation ==
    /\ \A t \in LongPair : InLock(t) ~> pc[t] \in {"ok", "err"}
    /\ [][\A t \in Threads : IsAcquire(t) => (~locked /\ locked')]_vars
    /\ [][(locked /\ ~locked')
             => \E t \in Threads : pc[t] \in {"unlock", "err"} /\ pc'[t] = "idle"]_vars

\* a call that waited through a sleep has returned the guard in its thread's
\* last call, the other thread having made its calls too
C11_Witness ==
    \E t, u \in LongPair :
        /\ t # u /\ pc[t] = "ret_ok" /\ hasSlept[t]
        /\ calls[t] = MaxCalls /\ calls[u] = MaxCalls

\* the positions of the WouldBlock arm
InRetry(t) == pc[t] \in {"load", "cas", "match", "asleep"}

\* C12: a lock() call leaves lock() only by returning Ok with the inner lock
\* owned or by returning the PoisonError of a poisoned mutex; a WouldBlock
\* result comes only from a held lock, does not return, and goes through the
\* load and compare_exchange loop, whose one success is the call's only write
\* of the interval and doubles it, then the match and one sleep, and from
\* there back to try_lock; under fair scheduling it always gets there.
C12_StateMachine ==
    /\ [][\A t \in Threads :
            /\ (InLock(t) /\ ~InLock(t)') =>
                   \/ pc[t] = "ret_ok" /\ pc'[t] = "ok" /\ locked /\ ~poisoned
                   \/ pc[t] = "ret_err" /\ pc'[t] = "err" /\ locked /\ poisoned
            /\ (pc[t] = "try" /\ pc'[t] # "try") =>
                   pc'[t] = (IF ~locked THEN (IF poisoned THEN "ret_err" ELSE "store")
                             ELSE "load")
            /\ (InRetry(t) /\ pc'[t] # pc[t]) =>
                   /\ <<pc[t], pc'[t]>> \in
                         {<<"load", "cas">>, <<"cas", "load">>, <<"cas", "match">>,
                          <<"match", "asleep">>, <<"asleep", "try">>}
                   /\ spin_us' = (IF IsCasOk(t) THEN SaturatingMul(spin_us, 2)
                                  ELSE spin_us)
                   /\ (slept'[t] # NoValue) <=> (pc'[t] = "asleep")
                   /\ pc'[t] = "asleep" => slept[t] = NoValue]_vars
    /\ \A t \in LongPair : InRetry(t) ~> pc[t] = "try"

\* after a WouldBlock, its doubling and its sleep, a call is back at try_lock
\* and the lock is still held
C12_Witness ==
    \E t \in Threads :
        pc[t] = "try" /\ retried[t] /\ hasSlept[t] /\ locked /\ spin_us # ToUsize(100)

\* the identifiers handed out so far: the id fields of the instances built
\* and the ids of the calls of new() under way
HandedOut ==
    {mutexes[i] : i \in 1..Len(mutexes)} \cup {id[t] : t \in {u \in Threads : id[u] # NoValue}}

\* C13: any two Mutex instances, built or being built by different threads,
\* have different identifiers; each fetch_add hands out an identifier larger
\* than every one handed out before it; the counter only grows, by one per
\* new() and never otherwise; and the id of an instance built never changes.
C13_UniqueIds ==
    /\ [](/\ \A i, j \in 1..Len(mutexes) : i # j => mutexes[i] # mutexes[j]
          /\ \A t, u \in Threads : (t # u /\ id[t] # NoValue) => id[t] # id[u]
          /\ \A t \in Threads, i \in 1..Len(mutexes) : id[t] # mutexes[i]
          /\ \A x \in HandedOut : Less(x, MUTEX_ID))
    /\ [][/\ \A t \in Threads :
               (id[t] = NoValue /\ id'[t] # NoValue) =>
                   /\ \A x \in HandedOut : Less(x, id'[t])
                   /\ MUTEX_ID' # MUTEX_ID
          /\ MUTEX_ID' # MUTEX_ID =>
               /\ Less(MUTEX_ID, MUTEX_ID')
               /\ \E t \in Threads : id[t] = NoValue /\ id'[t] = MUTEX_ID
          /\ Len(mutexes') >= Len(mutexes)
          /\ \A i \in 1..Len(mutexes) : mutexes'[i] = mutexes[i]]_vars

\* two threads are inside new() at once with different ids, and of the
\* instances built the one built later has the smaller id
C13_Witness ==
    /\ \E t, u \in Threads : t # u /\ id[t] # NoValue /\ id[u] # NoValue
    /\ \E i, j \in 1..Len(mutexes) : i < j /\ Less(mutexes[j], mutexes[i])

\* C14: a guard returned by a successful lock() has logged no "Released" line
\* while it is held; its drop, at the end of its scope or in a panic's
\* unwinding, logs exactly one and then gives the inner lock back, which is
\* held until then and free right after, so that a try_lock can succeed; and
\* no "Released" line is logged otherwise.
C14_GuardRelease ==
    /\ [](\A t \in Threads :
            /\ pc[t] = "ok" => (releasedLogs[t] = 0 /\ locked)
            /\ pc[t] = "unlock" => (releasedLogs[t] = 1 /\ locked))
    /\ [][\A t \in Threads :
            /\ (pc[t] = "ok" /\ pc'[t] # "ok") =>
                   /\ pc'[t] = "unlock"
                   /\ releasedLogs'[t] = 1
                   /\ lastLog' = "Released"
            /\ (pc[t] = "unlock" /\ pc'[t] # "unlock") =>
                   /\ pc'[t] = "idle"
                   /\ ~locked'
                   /\ TryLockResult' # "WouldBlock"
            /\ releasedLogs'[t] > releasedLogs[t] => pc[t] = "ok"
            /\ (lastLog' = "Released" /\ lastLog # "Released") =>
                   \E u \in Threads : pc[u] = "ok" /\ pc'[u] = "unlock"]_vars

\* a panicking owner's guard has logged its "Released" line and still holds
\* the inner lock, for which another thread waits
C14_Witness ==
    \E t, u \in Threads :
        /\ pc[t] = "unlock" /\ panicking[t] /\ releasedLogs[t] = 1 /\ locked
        /\ pc[u] = "asleep"

\* x shifted left by one bit, usize::MAX when the top bit is lost
Twice(x) ==
    IF DoubleOverflows(x) THEN UsizeMax
    ELSE [i \in WordIdx |->
            ((2 * x[i]) % WORD_BASE)
            + (IF i > 1 THEN x[i - 1] \div (WORD_BASE \div 2) ELSE 0)]

\* min(v * 2^k, MAX)
RECURSIVE TimesPow2(_, _)
TimesPow2(v, k) == IF k = 0 THEN v ELSE Twice(TimesPow2(v, k - 1))

\* C15: no doubling is lost: after k failed attempts have completed their
\* compare_exchange since the interval last was stored v = DEFAULT_SPIN, with
\* no acquisition in between, the interval is min(v * 2^k, MAX), however the
\* waiters' loads and compare_exchanges interleave; and the values the
\* compare_exchanges handed to two waiters, with no acquisition since either,
\* differ unless they are MAX.
C15_NoLostDoubling ==
    /\ doublings < MaxCount => spin_us = TimesPow2(ToUsize(100), doublings)
    /\ \A t, u \in Threads :
          (/\ t # u
           /\ spin[t] # NoValue /\ spin[u] # NoValue
           /\ ~resetSince[t] /\ ~resetSince[u]
           /\ spin[t] # UsizeMax)
              => spin[t] # spin[u]

\* two waiters have completed their doublings of one blocked period, one
\* was handed 100 and the other 200, and the interval is 400
C15_Witness ==
    \E t, u \in Threads :
        /\ pc[t] = "match" /\ spin[t] = ToUsize(100)
        /\ pc[u] = "match" /\ spin[u] = ToUsize(200)
        /\ doublings = 2 /\ spin_us = ToUsize(400)

\* x is 100 * 2^k for some k >= 0
RECURSIVE IsDefaultTimesPow2(_)
IsDefaultTimesPow2(x) ==
    \/ x = ToUsize(100)
    \/ /\ Less(ToUsize(100), x)
       /\ x[1] % 2 = 0
       /\ IsDefaultTimesPow2(Halve(x))

\* C16: the interval is always at least 100 and is 100 * 2^k or usize::MAX;
\* it changes only in the store of DEFAULT_SPIN by the thread that has just
\* taken the inner lock, and in the doubling by a thread that is in the
\* WouldBlock arm of its latest try_lock.
C16_ValueSet ==
    /\ [](/\ LessEq(ToUsize(100), spin_us)
          /\ IsDefaultTimesPow2(spin_us) \/ spin_us = UsizeMax)
    /\ [][spin_us' # spin_us =>
            \E t \in Threads :
               \/ /\ pc[t] = "store" /\ pc'[t] = "locklog"
                  /\ locked /\ Owners = {t}
                  /\ spin_us' = ToUsize(100)
               \/ /\ pc[t] = "cas" /\ pc'[t] = "match"
                  /\ retried[t] /\ ~Owns(t)
                  /\ spin_us' = Twice(spin_us)]_vars

\* the interval is the largest 100 * 2^k that fits a usize, one doubling
\* before it saturates
C16_Witness ==
    /\ IsDefaultTimesPow2(spin_us)
    /\ DoubleOverflows(spin_us)
    /\ \E t \in Threads : pc[t] = "match" /\ Twice(spin[t]) = spin_us

\* no thread is inside lock()
Quiescent == \A t \in Threads : ~InLock(t)

\* C17: while the mutex is not poisoned, the interval is 100 whenever no
\* thread is inside lock(); and whenever it is not 100, some call that got a
\* WouldBlock is still inside lock() and has its store of DEFAULT_SPIN ahead.
C17_Quiescence ==
    /\ (~poisoned /\ Quiescent) => spin_us = ToUsize(100)
    /\ (~poisoned /\ spin_us # ToUsize(100)) =>
          \E t \in Threads :
              retried[t] /\ pc[t] \in {"try", "load", "cas", "match", "asleep", "store"}

\* no thread is inside lock(), one holds the guard, the mutex is not poisoned,
\* and a waiter had doubled the interval after the lock was released
C17_Witness ==
    /\ Quiescent /\ ~poisoned /\ lateDoubling
    /\ spin_us = ToUsize(100)
    /\ \E t \in Threads : pc[t] = "ok"

\* C18: a lock() call that returns the PoisonError has logged no "Locked"
\* line, and neither its try_lock, its return nor the drop of the guard inside
\* the PoisonError changes the interval or logs a "Locked" or "Released" line;
\* and from the state in which the mutex is poisoned on, no thread stores
\* DEFAULT_SPIN and the interval never decreases.
C18_PoisonFrame ==
    /\ [](\A t \in Threads :
            pc[t] \in {"ret_err", "err"} =>
                (poisoned /\ lockedLogs[t] = 0 /\ releasedLogs[t] = 0))
    /\ [][\A t \in Threads :
            ((pc[t] = "try" /\ pc'[t] = "ret_err") \/ (pc[t] \in {"ret_err", "err"} /\ pc'[t] # pc[t]))
               => /\ spin_us' = spin_us
                  /\ lastLog' = lastLog
                  /\ releasedLogs'[t] = 0 /\ lockedLogs'[t] = 0]_vars
    /\ [][poisoned =>
            /\ LessEq(spin_us, spin_us')
            /\ \A t \in Threads : ~IsStoreDefault(t)
            /\ lastLog' = lastLog]_vars

\* the mutex is poisoned, every call has returned and every guard is dropped,
\* and the interval is still the doubled one
C18_Witness ==
    /\ poisoned
    /\ \A t \in Threads : pc[t] = "idle"
    /\ Less(ToUsize(100), spin_us)

\* thread t's step logs the "Locked" line
IsLogLocked(t) == pc[t] = "locklog" /\ pc'[t] = "ret_ok"

\* thread t's step logs the "Released" line
IsLogReleased(t) == pc[t] = "ok" /\ pc'[t] = "unlock"

\* C19: the "Locked" line is logged by the thread that owns the inner lock,
\* after it took it, and follows no line or a "Released" line; the "Released"
\* line is logged while the inner lock is still held, and follows a "Locked"
\* line; no other step logs either; so the two alternate in the log of the
\* mutex, "Locked" first, and the latest line is "Locked" exactly while some
\* thread holds a MutexGuard.
C19_LogOrder ==
    /\ [][\A t \in Threads :
            /\ IsLogLocked(t) =>
                   /\ locked /\ Owners = {t}
                   /\ lastLog \in {"none", "Released"}
                   /\ lastLog' = "Locked"
            /\ IsLogReleased(t) =>
                   /\ locked /\ locked' /\ Owners = {t}
                   /\ lastLog = "Locked"
                   /\ lastLog' = "Released"]_vars
    /\ [][lastLog' # lastLog =>
            \E t \in Threads : IsLogLocked(t) \/ IsLogReleased(t)]_vars
    /\ [](lastLog = "Locked" <=> \E t \in Threads : pc[t] \in {"ret_ok", "ok"})

\* a thread that waited owns the inner lock and is about to log "Locked", and
\* the latest line of the log is the previous owner's "Released"
C19_Witness ==
    \E t \in Threads :
        pc[t] = "locklog" /\ hasSlept[t] /\ lastLog = "Released" /\ locked

====
